---- MODULE Spec2Model ----
(***************************************************************************)
(* Model of the Grapevine MCP server: the tool adapter                     *)
(* (src/grapevine_mcp/server.py) on top of the Staffbase HTTP client       *)
(* (src/grapevine_mcp/staffbase_client.py).                                *)
(*                                                                         *)
(* Python / JSON values are tagged records:                                *)
(*   [t |-> "none"]                    None                                *)
(*   [t |-> "str",  s |-> "..."]       str                                 *)
(*   [t |-> "int",  n |-> 3]           int                                 *)
(*   [t |-> "list", items |-> <<..>>]  list                                *)
(*   [t |-> "dict", kv |-> <<..>>]     dict, entries [k, v] in insertion   *)
(*                                     order (keys are distinct)           *)
(* A text produced by json.dumps is represented by the value it encodes    *)
(* together with the indent option it was written with.                    *)
(***************************************************************************)
EXTENDS Integers, Sequences, FiniteSets, TLC

VARIABLES environ, tools, listing, extractDefault, frames

vars == <<environ, tools, listing, extractDefault, frames>>

-----------------------------------------------------------------------------
(* Bounds of the model.                                                    *)

MaxInv == 2          \* concurrent tool invocations
MaxPosts == 12       \* longest upstream post list
MaxLimit == 12       \* largest limit argument
MinLimitAbs == 2     \* limits range down to -MinLimitAbs
MaxNodes == 4        \* nodes of an upstream channel tree
MaxOver == 1         \* text lengths around a truncation threshold
TruncPosts == 3      \* longest post list of SpecTrunc
LongTeaser == 500    \* a teaser much longer than the threshold
LongContent == 10000 \* a page content much longer than the threshold

(* Program constants.                                                      *)

DefaultNewsLimit == 10
DefaultSearchLimit == 10
TeaserMax == 200
ContentMax == 5000
_DEFAULT_TIMEOUT == 30
JsonIndent == 2

-----------------------------------------------------------------------------
(* Python values.                                                          *)

None == [t |-> "none"]
JStr(s) == [t |-> "str", s |-> s]
JInt(n) == [t |-> "int", n |-> n]
JList(items) == [t |-> "list", items |-> items]
JDict(kv) == [t |-> "dict", kv |-> kv]
KV(k, v) == [k |-> k, v |-> v]

IsDict(v) == v.t = "dict"
IsList(v) == v.t = "list"

Min(a, b) == IF a < b THEN a ELSE b
Max(a, b) == IF a > b THEN a ELSE b

\* bool(v)
Truthy(v) ==
    CASE v.t = "none" -> FALSE
      [] v.t = "str"  -> v.s # ""
      [] v.t = "int"  -> v.n # 0
      [] v.t = "list" -> v.items # <<>>
      [] v.t = "dict" -> v.kv # <<>>

\* k in d
Has(d, k) == \E i \in 1..Len(d.kv) : d.kv[i].k = k

\* d.get(k, default)
Get(d, k, default) ==
    IF Has(d, k)
    THEN d.kv[CHOOSE i \in 1..Len(d.kv) : d.kv[i].k = k].v
    ELSE default

\* next(iter(d), None): the first key in insertion order
FirstKey(d) == IF d.kv = <<>> THEN None ELSE JStr(d.kv[1].k)

\* seq[:stop] for a sequence or a string and an integer stop
Slice(seq, stop) ==
    LET n == Len(seq)
        e == IF stop < 0 THEN Max(n + stop, 0) ELSE Min(stop, n)
    IN SubSeq(seq, 1, e)

\* s.rstrip("/")
RECURSIVE RStripSlash(_)
RStripSlash(s) ==
    IF Len(s) > 0 /\ SubSeq(s, Len(s), Len(s)) = "/"
    THEN RStripSlash(SubSeq(s, 1, Len(s) - 1))
    ELSE s

\* json.dumps(v, indent=indent): the text, by the value it encodes
Dumps(v, indent) == [json |-> v, indent |-> indent]

\* Exceptions and str(exc)
Exc(cls, arg) == [cls |-> cls, arg |-> arg]
StrOfExc(e) == IF e.cls = "KeyError" THEN "'" \o e.arg \o "'" ELSE e.arg

\* The classes of the model that derive from Exception
ExceptionClasses ==
    {"RuntimeError", "KeyError", "AttributeError", "TypeError",
     "HTTPStatusError", "ConnectError", "ReadTimeout"}

\* Results of a piece of straight-line code
Return(v) == [k |-> "return", val |-> v]
Raise(e) == [k |-> "raise", exc |-> e]
Await(r) == [k |-> "await", req |-> r]

-----------------------------------------------------------------------------
(* Upstream client, staffbase_client.py.                                   *)

\* StaffbaseClient.__init__
StaffbaseClient(base_url, api_key) ==
    [base_url |-> RStripSlash(base_url),
     authorization |-> "Basic " \o api_key,
     timeout |-> _DEFAULT_TIMEOUT]

\* StaffbaseClient._get up to client.get(...): the request put on the wire
_get(client, path, params) ==
    [method |-> "GET", url |-> client.base_url \o path,
     authorization |-> client.authorization,
     params |-> params, timeout |-> client.timeout]

\* data.get("data", data) if isinstance(data, dict) else data
Unwrap(data) == IF IsDict(data) THEN Get(data, "data", data) ELSE data

list_spaces_request(client) ==
    _get(client, "/api/spaces", JDict(<<KV("includeHidden", JStr("true"))>>))
list_spaces_result(data) == Unwrap(data)

get_global_posts_request(client, limit) ==
    _get(client, "/api/posts", JDict(<<KV("limit", limit), KV("offset", JInt(0))>>))
get_global_posts_result(data) == Unwrap(data)

get_channel_posts_request(client, channel_id, limit) ==
    _get(client, "/api/channels/" \o channel_id.s \o "/posts",
            JDict(<<KV("limit", limit), KV("offset", JInt(0))>>))
get_channel_posts_result(data) == data

get_page_request(client, page_id) ==
    _get(client, "/api/pages/" \o page_id.s, None)
get_page_result(data) == data

search_request(client, query, limit) ==
    _get(client, "/api/search", JDict(<<KV("q", query), KV("limit", limit)>>))
search_result(data) == data

get_space_news_request(client, space_id) ==
    _get(client, "/api/spaces/" \o space_id.s \o "/news", None)
get_space_news_result(data) == Unwrap(data)

-----------------------------------------------------------------------------
(* Tool adapter, server.py.                                                *)

\* TOOLS: the catalog, by descriptor name and required-argument list
TOOLS ==
    <<[name |-> "list_spaces",   required |-> <<>>],
      [name |-> "get_news",      required |-> <<>>],
      [name |-> "list_channels", required |-> <<"space_id">>],
      [name |-> "get_page",      required |-> <<"page_id">>],
      [name |-> "search",        required |-> <<"query">>]>>

Indent2 == JInt(JsonIndent)
EmptyDict == JDict(<<>>)

ConfigMessage ==
    "STAFFBASE_URL and STAFFBASE_API_KEY environment variables are required."

\* os.environ.get(k, "")
EnvGet(env, k) == Get(env, k, JStr(""))

\* _get_client without its check of the two variables
_get_client_unchecked(env) ==
    Return(StaffbaseClient(EnvGet(env, "STAFFBASE_URL").s,
                           EnvGet(env, "STAFFBASE_API_KEY").s))

\* _get_client
_get_client(env) ==
    LET base_url == EnvGet(env, "STAFFBASE_URL")
        api_key == EnvGet(env, "STAFFBASE_API_KEY")
    IN IF ~Truthy(base_url) \/ ~Truthy(api_key)
       THEN Raise(Exc("RuntimeError", ConfigMessage))
       ELSE Return(StaffbaseClient(base_url.s, api_key.s))


\* arguments[k] of a missing key
MissingKey(k) == Raise(Exc("KeyError", k))

\* The else branch with the name left out of the message
UnknownToolUnnamed(name) ==
    Return(Dumps(JDict(<<KV("error", JStr("Unknown tool"))>>), None))

\* The else branch of _handle_tool
UnknownTool(name) ==
    Return(Dumps(JDict(<<KV("error", JStr("Unknown tool: " \o name))>>), None))

\* _handle_tool from its entry to its first suspension, return or raise
_handle_tool_start(name, arguments, env) ==
    LET c == _get_client(env) IN
    IF c.k = "raise" THEN c ELSE
    LET client == c.val IN
    CASE name = "list_spaces" -> Await(list_spaces_request(client))
      [] name = "get_news" ->
            LET channel_id == Get(arguments, "channel_id", None)
                limit == Get(arguments, "limit", JInt(DefaultNewsLimit))
            IN IF Truthy(channel_id)
               THEN Await(get_channel_posts_request(client, channel_id, limit))
               ELSE Await(get_global_posts_request(client, limit))
      [] name = "list_channels" ->
            IF ~Has(arguments, "space_id") THEN MissingKey("space_id")
            ELSE Await(get_space_news_request(client, Get(arguments, "space_id", None)))
      [] name = "get_page" ->
            IF ~Has(arguments, "page_id") THEN MissingKey("page_id")
            ELSE Await(get_page_request(client, Get(arguments, "page_id", None)))
      [] name = "search" ->
            IF ~Has(arguments, "query") THEN MissingKey("query")
            ELSE Await(search_request(client, Get(arguments, "query", None),
                                     Get(arguments, "limit", JInt(DefaultSearchLimit))))
      [] OTHER -> UnknownTool(name)

\* The representative locale of a contents mapping and its localized object
Locale(contents) == FirstKey(contents)
Localized(contents) ==
    IF Truthy(Locale(contents))
    THEN Get(contents, Locale(contents).s, EmptyDict)
    ELSE EmptyDict
LocaleOrEmpty(contents) ==
    IF Truthy(Locale(contents)) THEN Locale(contents) ELSE JStr("")

\* localized.get("teaser", "")[:201]
TruncTeaserOffByOne(s) == Slice(s, TeaserMax + 1)

\* localized.get("teaser", "")[:200]
TruncTeaser(s) == Slice(s, TeaserMax)
\* localized.get("content", "")[:5000]
TruncContent(s) == Slice(s, ContentMax)

\* posts, not cut to limit
LimitPostsAll(posts, limit) == posts

\* posts[:limit]
LimitPosts(posts, limit) == Slice(posts, limit)

\* One element of the get_news result
NewsEntry(p) ==
    LET contents == Get(p, "contents", EmptyDict)
        localized == Localized(contents)
    IN JDict(<<KV("id", Get(p, "id", JStr(""))),
               KV("title", Get(localized, "title", JStr(""))),
               KV("teaser", JStr(TruncTeaser(Get(localized, "teaser", JStr("")).s))),
               KV("published", Get(p, "publishedAt", JStr(""))),
               KV("locale", LocaleOrEmpty(contents))>>)

NoGetAttribute == Raise(Exc("AttributeError", "'str' object has no attribute 'get'"))

\* What iterating a value yields: the items of a list, the keys of a dict
IterItems(v) ==
    IF IsList(v) THEN v.items ELSE [i \in 1..Len(v.kv) |-> JStr(v.kv[i].k)]

\* The posts of a get_news call with the channel branch's unwrapping left out
NewsPostsNoUnwrap(arguments, data) ==
    IF Truthy(Get(arguments, "channel_id", None))
    THEN get_channel_posts_result(data)
    ELSE get_global_posts_result(data)

\* The posts of a get_news call, from the response body
NewsPosts(arguments, data) ==
    IF Truthy(Get(arguments, "channel_id", None))
    THEN Unwrap(get_channel_posts_result(data))
    ELSE get_global_posts_result(data)

\* get_news after the response
ResumeNews(arguments, data) ==
    LET limit == Get(arguments, "limit", JInt(DefaultNewsLimit))
        posts == NewsPosts(arguments, data)
        selected == IF IsList(posts) THEN LimitPosts(posts.items, limit.n) ELSE <<>>
    IN IF \E i \in 1..Len(selected) : ~IsDict(selected[i])
       THEN NoGetAttribute
       ELSE Return(Dumps(JList([i \in 1..Len(selected) |-> NewsEntry(selected[i])]),
                         Indent2))

\* list_spaces after the response
ResumeSpaces(data) ==
    LET spaces == IterItems(list_spaces_result(data)) IN
    IF \E i \in 1..Len(spaces) : ~IsDict(spaces[i])
    THEN Raise(Exc("TypeError", "string indices must be integers"))
    ELSE IF \E i \in 1..Len(spaces) : ~Has(spaces[i], "id")
    THEN MissingKey("id")
    ELSE Return(Dumps(JList([i \in 1..Len(spaces) |->
                    JDict(<<KV("id", Get(spaces[i], "id", None)),
                            KV("name", Get(spaces[i], "name", JStr("")))>>)]),
                Indent2))

\* The entry of one "news" node
ChannelEntry(item) ==
    LET contents == Get(item, "contents", EmptyDict)
        title == IF Truthy(Locale(contents))
                 THEN Get(Localized(contents), "title", JStr(""))
                 ELSE JStr("")
    IN JDict(<<KV("name", IF Truthy(title) THEN title
                          ELSE Get(item, "title", JStr(""))),
               KV("installation_id",
                  Get(item, "installationID", Get(item, "id", JStr(""))))>>)

\* item.get("type") == "news"
IsNews(item) == Get(item, "type", None) = JStr("news")

\* The loop with the children walked before the node's own entry is added
RECURSIVE WalkChildrenFirst(_, _)
WalkChildrenFirst(items, result) ==
    IF items = <<>> THEN result
    ELSE LET item == Head(items)
             children == Get(item, "children", JList(<<>>))
             sub == IF Truthy(children) THEN WalkChildrenFirst(children.items, result)
                    ELSE result
             own == IF IsNews(item) THEN Append(sub, ChannelEntry(item)) ELSE sub
         IN WalkChildrenFirst(Tail(items), own)

\* The loop of _extract_channels over items, appending to result
RECURSIVE Walk(_, _)
Walk(items, result) ==
    IF items = <<>> THEN result
    ELSE LET item == Head(items)
             own == IF IsNews(item) THEN Append(result, ChannelEntry(item))
                    ELSE result
             children == Get(item, "children", JList(<<>>))
             sub == IF Truthy(children) THEN Walk(children.items, own) ELSE own
         IN Walk(Tail(items), sub)

\* A list as the default of the parameter: one object for all calls
SharedListDefault == JList(<<>>)

\* The default of _extract_channels's parameter result
DefaultResult == None

\* _extract_channels(items, result): a fresh list when result is None
_extract_channels(items, result) ==
    Walk(items, IF result = None THEN <<>> ELSE result.items)

\* list_channels after the response; default is the object the parameter
\* result of _extract_channels defaults to
ResumeChannels(data, default) ==
    LET news == get_space_news_result(data) IN
    IF ~IsList(news) /\ Truthy(news) THEN NoGetAttribute
    ELSE Return(Dumps(JList(_extract_channels(IterItems(news), default)), Indent2))

\* get_page after the response
ResumePage(data) ==
    LET page == get_page_result(data)
        contents == Get(page, "contents", EmptyDict)
        localized == Localized(contents)
    IN Return(Dumps(JDict(<<
           KV("id", Get(page, "id", JStr(""))),
           KV("title", Get(localized, "title", JStr(""))),
           KV("content", JStr(TruncContent(Get(localized, "content", JStr("")).s))),
           KV("locale", LocaleOrEmpty(contents)),
           KV("updated", Get(page, "updatedAt", JStr("")))>>), Indent2))

\* search after the response
ResumeSearch(data) == Return(Dumps(search_result(data), Indent2))

\* _handle_tool from the response of its request to its return or raise
_handle_tool_resume(name, arguments, data, default) ==
    CASE name = "list_spaces"   -> ResumeSpaces(data)
      [] name = "get_news"      -> ResumeNews(arguments, data)
      [] name = "list_channels" -> ResumeChannels(data, default)
      [] name = "get_page"      -> ResumePage(data)
      [] name = "search"        -> ResumeSearch(data)

\* The object result defaults to, after a call that used it: a list is
\* appended to in place, None is left as it is
DefaultAfter(name, r, default) ==
    IF name = "list_channels" /\ r.k = "return" /\ default # None
    THEN r.val.json
    ELSE default

\* except RuntimeError
CatchesRuntimeErrorOnly(cls) == cls = "RuntimeError"

\* except Exception
Catches(cls) == cls \in ExceptionClasses

TextContent(text) == [type |-> "text", text |-> text]

\* call_tool around the final result r of _handle_tool
CallToolResult(r) ==
    IF r.k = "return" THEN [k |-> "return", content |-> <<TextContent(r.val)>>]
    ELSE IF Catches(r.exc.cls)
    THEN [k |-> "return",
          content |-> <<TextContent(
              Dumps(JDict(<<KV("error", JStr(StrOfExc(r.exc)))>>), None))>>]
    ELSE [k |-> "raise", exc |-> r.exc]

\* list_tools
ListToolsResult(catalog) ==
    [i \in 1..Len(catalog) |-> [name |-> catalog[i].name,
                                required |-> catalog[i].required]]

-----------------------------------------------------------------------------
(* The process: its environment, the catalog, and the invocations in       *)
(* flight.  frames[i] is the activation of call_tool for invocation i:     *)
(* pc is "idle" before the call, "awaiting" while _handle_tool is          *)
(* suspended in client.get, "done" after call_tool has returned; requests  *)
(* are the HTTP requests it has issued, response what upstream answered,   *)
(* outcome what call_tool returned or raised.                              *)

Invocations == 1..MaxInv

\* Nothing received, nothing returned yet
Nothing == [k |-> "none"]

IdleFrame ==
    [pc |-> "idle", name |-> "", arguments |-> EmptyDict, requests |-> <<>>,
     response |-> Nothing, outcome |-> Nothing]

\* The frame once call_tool has finished with the result r of _handle_tool
Finished(f, response, r) ==
    [f EXCEPT !.pc = "done", !.response = response, !.outcome = CallToolResult(r)]

\* call_tool(name, arguments) up to the suspension in client.get, or to
\* its return when _handle_tool finishes without a request
Entered(name, arguments, env) ==
    LET r == _handle_tool_start(name, arguments, env)
        f == [IdleFrame EXCEPT !.name = name, !.arguments = arguments]
    IN IF r.k = "await"
       THEN [f EXCEPT !.pc = "awaiting", !.requests = <<r.req>>]
       ELSE Finished(f, Nothing, r)

\* _get sending the request once more after a first failure
AfterFailureRetry(f, e) ==
    IF Len(f.requests) < 2
    THEN [f EXCEPT !.requests = Append(@, @[1])]
    ELSE [f EXCEPT !.pc = "done", !.response = [k |-> "fail", exc |-> e],
                   !.outcome = [k |-> "raise", exc |-> e]]

\* _get when client.get or raise_for_status raises e: the exception
\* propagates to call_tool, nothing is sent again
AfterFailure(f, e) == Finished(f, [k |-> "fail", exc |-> e], Raise(e))

\* _get when upstream answers 2xx with the JSON value data
AfterResponse(f, data, default) ==
    Finished(f, [k |-> "json", data |-> data],
             _handle_tool_resume(f.name, f.arguments, data, default))

call_tool(i, name, arguments) ==
    /\ frames[i].pc = "idle"
    /\ frames' = [frames EXCEPT ![i] = Entered(name, arguments, environ)]
    /\ UNCHANGED <<environ, tools, listing, extractDefault>>

HttpOk(i, data) ==
    /\ frames[i].pc = "awaiting"
    /\ frames' = [frames EXCEPT ![i] = AfterResponse(frames[i], data, extractDefault)]
    /\ extractDefault' =
           DefaultAfter(frames[i].name,
                        _handle_tool_resume(frames[i].name, frames[i].arguments, data,
                                     extractDefault),
                        extractDefault)
    /\ UNCHANGED <<environ, tools, listing>>

HttpFail(i, e) ==
    /\ frames[i].pc = "awaiting"
    /\ frames' = [frames EXCEPT ![i] = AfterFailure(frames[i], e)]
    /\ UNCHANGED <<environ, tools, listing, extractDefault>>

list_tools ==
    /\ listing' = ListToolsResult(tools)
    /\ UNCHANGED <<environ, tools, extractDefault, frames>>

-----------------------------------------------------------------------------
(* Inputs.                                                                 *)

Configured ==
    JDict(<<KV("STAFFBASE_URL", JStr("https://sb.example/")),
            KV("STAFFBASE_API_KEY", JStr("a2V5"))>>)

Unconfigured ==
    {JDict(<<>>),
     JDict(<<KV("STAFFBASE_URL", JStr("https://sb.example/"))>>),
     JDict(<<KV("STAFFBASE_API_KEY", JStr("a2V5"))>>),
     JDict(<<KV("STAFFBASE_URL", JStr("")), KV("STAFFBASE_API_KEY", JStr("a2V5"))>>),
     JDict(<<KV("STAFFBASE_URL", JStr("https://sb.example/")),
             KV("STAFFBASE_API_KEY", JStr(""))>>)}

CatalogNames == {TOOLS[i].name : i \in 1..Len(TOOLS)}
UnknownNames == {"delete_page", ""}
ToolNames == CatalogNames \cup UnknownNames

Failures ==
    {Exc("HTTPStatusError", "Server error '500 Internal Server Error'"),
     Exc("ConnectError", "All connection attempts failed"),
     Exc("ReadTimeout", "")}

Digits == "0123456789"

\* Digits n times
RECURSIVE Rep(_)
Rep(n) ==
    IF n = 0 THEN ""
    ELSE LET h == Rep(n \div 2)
         IN IF n % 2 = 1 THEN h \o h \o Digits ELSE h \o h

\* A text of n characters
Text(n) == Rep(n \div 10) \o SubSeq(Digits, 1, n % 10)

\* Text lengths around a truncation threshold, and one far beyond it
Lengths(threshold, long) ==
    (0..MaxOver) \cup ((threshold - MaxOver)..(threshold + MaxOver)) \cup {long}

\* Post j of an upstream list: its first locale alternates, every third
\* post has no contents
Post(j, len) ==
    LET en == KV("en", JDict(<<KV("title", JStr("Title")), KV("teaser", JStr(Text(len)))>>))
        de == KV("de", JDict(<<KV("title", JStr("Titel")), KV("teaser", JStr(Text(len)))>>))
        short == JDict(<<KV("title", JStr("Other")), KV("teaser", JStr("other"))>>)
        id == KV("id", JStr("p" \o ToString(j)))
        at == KV("publishedAt", JStr("2024-01-01"))
    IN IF j % 3 = 0 THEN JDict(<<id>>)
       ELSE IF j % 2 = 1
       THEN JDict(<<id, KV("contents", JDict(<<en, KV("de", short)>>)), at>>)
       ELSE JDict(<<id, KV("contents", JDict(<<de, KV("en", short)>>)), at>>)

PostList(k, len) == [j \in 1..k |-> Post(j, len)]

Envelope(items) == JDict(<<KV("total", JInt(Len(items))), KV("data", JList(items))>>)

Page(len) ==
    JDict(<<KV("id", JStr("42")),
            KV("contents", JDict(<<
                KV("en", JDict(<<KV("title", JStr("Hi")), KV("content", JStr(Text(len)))>>)),
                KV("de", JDict(<<KV("title", JStr("Hallo")), KV("content", JStr("kurz"))>>))>>)),
            KV("updatedAt", JStr("2024-01-01"))>>)

NodeTypes == {"news", "folder"}

\* Ordered forests of n nodes, each node typed
RECURSIVE ForestsOfSize(_)
ForestsOfSize(n) ==
    IF n = 0 THEN {<<>>}
    ELSE UNION {{<<[type |-> ty, kids |-> c]>> \o f :
                    ty \in NodeTypes, c \in ForestsOfSize(k - 1),
                    f \in ForestsOfSize(n - k)} : k \in 1..n}

\* The upstream JSON of a forest; a node's id spells its position
RECURSIVE NodesJson(_, _)
NodesJson(forest, prefix) ==
    [i \in 1..Len(forest) |->
        LET id == prefix \o ToString(i)
            base == <<KV("id", JStr(id)), KV("type", JStr(forest[i].type)),
                      KV("title", JStr("Channel " \o id))>>
        IN IF forest[i].kids = <<>> THEN JDict(base)
           ELSE JDict(Append(base,
                    KV("children", JList(NodesJson(forest[i].kids, id \o ".")))))]

Forests == UNION {ForestsOfSize(n) : n \in 0..MaxNodes}
Trees == {NodesJson(f, "") : f \in Forests}

-----------------------------------------------------------------------------
(* Spec: concurrent invocations of every tool, in every configuration,     *)
(* against upstream answers of every kind (2xx bodies of several shapes,   *)
(* HTTP status errors, transport errors, timeouts).                        *)

Str(s) == JStr(s)

MainArgs ==
    {EmptyDict,
     JDict(<<KV("space_id", Str("s1")), KV("page_id", Str("42")),
             KV("query", Str("lunch"))>>),
     JDict(<<KV("channel_id", Str("abc")), KV("limit", JInt(1))>>)}

SomeSpaces ==
    <<JDict(<<KV("id", Str("1")), KV("name", Str("HQ"))>>), JDict(<<KV("id", Str("2"))>>)>>

SomeTree ==
    NodesJson(<<[type |-> "folder", kids |-> <<[type |-> "news", kids |-> <<>>]>>],
                [type |-> "news", kids |-> <<>>]>>, "")

MainBodies(name) ==
    CASE name = "list_spaces" ->
            {JList(SomeSpaces), Envelope(SomeSpaces),
             JList(<<JDict(<<KV("name", Str("HQ"))>>)>>)}
      [] name = "get_news" ->
            {JList(PostList(2, 3)), Envelope(PostList(2, 3)), JList(<<Str("p1")>>)}
      [] name = "list_channels" -> {JList(SomeTree), Envelope(SomeTree)}
      [] name = "get_page" -> {Page(3), JDict(<<KV("id", Str("43"))>>)}
      [] name = "search" ->
            {JDict(<<KV("entries", JList(<<Str("e1")>>))>>),
             JDict(<<KV("error", Str("index offline"))>>),
             JList(<<>>)}
      [] OTHER -> {}

Init ==
    /\ environ \in {Configured} \cup Unconfigured
    /\ tools = TOOLS
    /\ listing = <<>>
    /\ extractDefault = DefaultResult
    /\ frames = [i \in Invocations |-> IdleFrame]

Next ==
    \/ \E i \in Invocations, name \in ToolNames, arguments \in MainArgs :
          call_tool(i, name, arguments)
    \/ \E i \in Invocations : \E data \in MainBodies(frames[i].name) : HttpOk(i, data)
    \/ \E i \in Invocations, e \in Failures : HttpFail(i, e)
    \/ list_tools

Spec == Init /\ [][Next]_vars

-----------------------------------------------------------------------------
(* SpecContent: one invocation of get_news or get_page, configured, over   *)
(* every channel_id / limit argument and post lists and pages of every     *)
(* length up to the bounds.                                                *)

ChannelOpts ==
    {<<>>, <<KV("channel_id", Str(""))>>, <<KV("channel_id", Str("abc"))>>}
LimitOpts == {<<>>} \cup {<<KV("limit", JInt(n))>> : n \in (0 - MinLimitAbs)..MaxLimit}

ContentArgs(name) ==
    IF name = "get_news" THEN {JDict(c \o l) : c \in ChannelOpts, l \in LimitOpts}
    ELSE {JDict(<<KV("page_id", Str("42"))>>)}

TeaserLengths == Lengths(TeaserMax, LongTeaser)
ContentLengths == Lengths(ContentMax, LongContent)

ContentBodies(name) ==
    CASE name = "get_news" ->
            {JList(PostList(k, len)) : k \in 0..MaxPosts, len \in TeaserLengths}
            \cup {Envelope(PostList(k, len)) : k \in 0..MaxPosts, len \in TeaserLengths}
            \cup {JDict(<<KV("total", JInt(0))>>)}
      [] name = "get_page" ->
            {Page(len) : len \in ContentLengths} \cup {JDict(<<KV("id", Str("43"))>>)}
      [] OTHER -> {}

InitContent ==
    /\ environ = Configured
    /\ tools = TOOLS
    /\ listing = <<>>
    /\ extractDefault = DefaultResult
    /\ frames = [i \in Invocations |-> IdleFrame]

NextContent ==
    \/ \E name \in {"get_news", "get_page"} : \E arguments \in ContentArgs(name) :
          call_tool(1, name, arguments)
    \/ \E data \in ContentBodies(frames[1].name) : HttpOk(1, data)

SpecContent == InitContent /\ [][NextContent]_vars

-----------------------------------------------------------------------------
(* SpecChannels: one invocation of list_channels, configured, over every   *)
(* channel tree of at most MaxNodes nodes, bare or in a data envelope.     *)

TreeBodies == {JList(t) : t \in Trees} \cup {Envelope(t) : t \in Trees}

NextChannels ==
    \/ call_tool(1, "list_channels", JDict(<<KV("space_id", Str("s1"))>>))
    \/ \E data \in TreeBodies : HttpOk(1, data)

SpecChannels == InitContent /\ [][NextChannels]_vars

-----------------------------------------------------------------------------
(* SpecTrunc: a get_news invocation and a get_page invocation, configured, *)
(* over teasers and page contents of every length around the truncation    *)
(* thresholds and far beyond them.                                         *)

TruncNewsArgs ==
    {EmptyDict, JDict(<<KV("channel_id", Str("abc")), KV("limit", JInt(2))>>)}

TruncNewsBodies ==
    {JList(PostList(k, len)) : k \in 0..TruncPosts, len \in TeaserLengths}
    \cup {Envelope(PostList(k, len)) : k \in 0..TruncPosts, len \in TeaserLengths}

NextTrunc ==
    \/ \E arguments \in TruncNewsArgs : call_tool(1, "get_news", arguments)
    \/ \E data \in TruncNewsBodies : HttpOk(1, data)
    \/ call_tool(2, "get_page", JDict(<<KV("page_id", Str("42"))>>))
    \/ \E data \in ContentBodies("get_page") : HttpOk(2, data)

SpecTrunc == InitContent /\ [][NextTrunc]_vars

-----------------------------------------------------------------------------
(* Vocabulary of the properties.                                           *)

Started(i) == frames[i].pc # "idle"
Done(i) == frames[i].pc = "done"
Returned(i) == Done(i) /\ frames[i].outcome.k = "return"

\* The JSON value of the single text item an invocation returned
Payload(i) == frames[i].outcome.content[1].text.json

\* Both variables are set and non-empty
IsConfigured ==
    /\ \E j \in 1..Len(environ.kv) :
          environ.kv[j].k = "STAFFBASE_URL" /\ environ.kv[j].v.s # ""
    /\ \E j \in 1..Len(environ.kv) :
          environ.kv[j].k = "STAFFBASE_API_KEY" /\ environ.kv[j].v.s # ""

\* The required arguments of a catalog tool that the mapping lacks
MissingRequired(name, arguments) ==
    {r \in {"space_id", "page_id", "query"} :
        /\ \E t \in 1..Len(TOOLS) :
              TOOLS[t].name = name /\ \E q \in 1..Len(TOOLS[t].required) :
                                         TOOLS[t].required[q] = r
        /\ ~\E j \in 1..Len(arguments.kv) : arguments.kv[j].k = r}

\* d has key k; the value of key k in d
HasField(d, k) == \E j \in 1..Len(d.kv) : d.kv[j].k = k
Field(d, k) == d.kv[CHOOSE j \in 1..Len(d.kv) : d.kv[j].k = k].v

\* v is the JSON object {"error": msg}
IsErrorObject(v, msg) == v = JDict(<<KV("error", JStr(msg))>>)

\* v is a JSON object with a top-level "error" key
HasErrorKey(v) == v.t = "dict" /\ \E j \in 1..Len(v.kv) : v.kv[j].k = "error"

\* sub occurs in s
Contains(s, sub) ==
    \E a \in 1..(Len(s) - Len(sub) + 1) : SubSeq(s, a, a + Len(sub) - 1) = sub

\* The result of _handle_tool for invocation i, from its inputs alone
HandlerResult(i) ==
    LET f == frames[i] IN
    IF f.response.k = "fail" THEN Raise(f.response.exc)
    ELSE IF f.response.k = "json"
    THEN _handle_tool_resume(f.name, f.arguments, f.response.data, DefaultResult)
    ELSE _handle_tool_start(f.name, f.arguments, environ)

-----------------------------------------------------------------------------
(* C1: call_tool never raises.  Whatever the name and the arguments, and   *)
(* whatever fault dispatch runs into (missing configuration, transport     *)
(* failure or timeout, non-2xx status, missing required argument), a       *)
(* finished invocation has returned a list of exactly one text item; after *)
(* a fault its text is the JSON object {"error": str(exc)}, otherwise it   *)
(* is the result of dispatch.                                              *)
C1_NeverRaises ==
    \A i \in Invocations : Done(i) =>
        LET f == frames[i]
            r == HandlerResult(i)
        IN /\ f.outcome.k = "return"
           /\ Len(f.outcome.content) = 1
           /\ f.outcome.content[1].type = "text"
           /\ ~IsConfigured => IsErrorObject(Payload(i), ConfigMessage)
           /\ f.response.k = "fail" => IsErrorObject(Payload(i), f.response.exc.arg)
           /\ (IsConfigured /\ MissingRequired(f.name, f.arguments) # {}) =>
                 \E k \in MissingRequired(f.name, f.arguments) :
                     IsErrorObject(Payload(i), "'" \o k \o "'")
           /\ r.k = "raise" => IsErrorObject(Payload(i), StrOfExc(r.exc))
           /\ r.k = "return" => f.outcome.content[1].text = r.val

\* One invocation ended by an upstream failure and another by a missing
\* required argument, both answered with an error object
C1_Witness ==
    \E i, j \in Invocations :
        /\ Returned(i) /\ frames[i].response.k = "fail"
        /\ frames[i].response.exc.cls = "ReadTimeout"
        /\ HasErrorKey(Payload(i))
        /\ Returned(j) /\ IsConfigured
        /\ MissingRequired(frames[j].name, frames[j].arguments) # {}
        /\ HasErrorKey(Payload(j))

-----------------------------------------------------------------------------
(* C2 as claimed: a name outside the catalog gets {"error": "Unknown       *)
(* tool: <name>"} in every configuration state, and no HTTP request.       *)
C2_UnknownToolAnyConfig ==
    \A i \in Invocations : (Started(i) /\ frames[i].name \notin CatalogNames) =>
        /\ Returned(i)
        /\ IsErrorObject(Payload(i), "Unknown tool: " \o frames[i].name)
        /\ frames[i].requests = <<>>

(* C2 amended: a name outside the catalog never issues an HTTP request,    *)
(* and when STAFFBASE_URL and STAFFBASE_API_KEY are both set and non-empty *)
(* the invocation returns {"error": "Unknown tool: <name>"}.               *)
C2_UnknownToolConfigured ==
    \A i \in Invocations : (Started(i) /\ frames[i].name \notin CatalogNames) =>
        /\ Returned(i)
        /\ frames[i].requests = <<>>
        /\ IsConfigured => IsErrorObject(Payload(i), "Unknown tool: " \o frames[i].name)

C2_Witness ==
    \E i \in Invocations :
        /\ IsConfigured /\ Returned(i)
        /\ frames[i].name = "delete_page"
        /\ frames[i].arguments # EmptyDict
        /\ IsErrorObject(Payload(i), "Unknown tool: delete_page")

-----------------------------------------------------------------------------
(* C3: when STAFFBASE_URL or STAFFBASE_API_KEY is absent or empty, every   *)
(* tool call, whatever its name and arguments, returns an error payload    *)
(* whose message names both variables, and issues no HTTP request.         *)
C3_MissingConfiguration ==
    ~IsConfigured =>
        \A i \in Invocations : Started(i) =>
            /\ Returned(i)
            /\ frames[i].requests = <<>>
            /\ HasErrorKey(Payload(i))
            /\ Len(Payload(i).kv) = 1
            /\ Contains(Payload(i).kv[1].v.s, "STAFFBASE_URL")
            /\ Contains(Payload(i).kv[1].v.s, "STAFFBASE_API_KEY")

\* An empty URL: a catalog tool with its argument and an unknown tool were
\* both called
C3_Witness ==
    /\ EnvGet(environ, "STAFFBASE_URL") = JStr("")
    /\ Has(environ, "STAFFBASE_URL")
    /\ \E i, j \in Invocations :
          /\ Returned(i) /\ frames[i].name = "get_page"
          /\ Has(frames[i].arguments, "page_id")
          /\ Returned(j) /\ frames[j].name = "delete_page"

-----------------------------------------------------------------------------
(* C7: no invocation issues more than one HTTP request.  With credentials  *)
(* configured, a catalog tool name and its required arguments present, an  *)
(* invocation issues exactly one; once that request has failed (non-2xx    *)
(* status, network error, timeout) the invocation is over with that        *)
(* failure as its outcome and still one request issued.                    *)
C7_SingleRequest ==
    \A i \in Invocations :
        LET f == frames[i] IN
        /\ Len(f.requests) <= 1
        /\ (Started(i) /\ IsConfigured /\ f.name \in CatalogNames
                /\ MissingRequired(f.name, f.arguments) = {}) =>
              Len(f.requests) = 1
        /\ f.response.k = "fail" =>
              /\ Returned(i)
              /\ Len(f.requests) = 1
              /\ IsErrorObject(Payload(i), f.response.exc.arg)

\* A request answered 500, and the invocation over with one request issued
C7_Witness ==
    \E i \in Invocations :
        /\ Returned(i)
        /\ frames[i].name = "search"
        /\ frames[i].response.k = "fail"
        /\ frames[i].response.exc.cls = "HTTPStatusError"
        /\ Len(frames[i].requests) = 1
        /\ frames[i].requests[1].url = "https://sb.example/api/search"

-----------------------------------------------------------------------------
(* C8: a top-level "error" key tells failure from success.  Every failed   *)
(* invocation and every unknown-tool invocation returns a JSON object with *)
(* an "error" key, and every successful invocation of a catalog tool       *)
(* returns a payload without a top-level "error" key, whatever upstream    *)
(* answered.                                                               *)
C8_ErrorKeyTellsFailure ==
    \A i \in Invocations : Done(i) =>
        LET f == frames[i]
            succeeded == /\ IsConfigured
                         /\ f.name \in CatalogNames
                         /\ f.response.k = "json"
                         /\ HandlerResult(i).k = "return"
        IN /\ Returned(i)
           /\ ~succeeded => HasErrorKey(Payload(i))
           /\ succeeded => ~HasErrorKey(Payload(i))

-----------------------------------------------------------------------------
(* C9: invocations are independent and stateless.  Under every             *)
(* interleaving at the HTTP suspension points, a finished invocation has   *)
(* the outcome it has when run alone with the same name, arguments,        *)
(* configuration and upstream answer; the catalog stays the same five      *)
(* descriptors in the same order, and a list_channels result holds the     *)
(* news channels of its own upstream answer only.                          *)

\* The outcome of an invocation that runs alone in a fresh process
AloneOutcome(name, arguments, env, response) ==
    LET entered == Entered(name, arguments, env) IN
    IF entered.pc = "done" THEN entered.outcome
    ELSE IF response.k = "fail" THEN AfterFailure(entered, response.exc).outcome
    ELSE AfterResponse(entered, response.data, None).outcome

\* The number of nodes typed "news" in a list of tree nodes
RECURSIVE CountNews(_)
CountNews(items) ==
    IF items = <<>> THEN 0
    ELSE LET n == Head(items)
             kids == IF \E j \in 1..Len(n.kv) : n.kv[j].k = "children"
                     THEN n.kv[CHOOSE j \in 1..Len(n.kv) : n.kv[j].k = "children"].v.items
                     ELSE <<>>
         IN (IF \E j \in 1..Len(n.kv) : n.kv[j].k = "type" /\ n.kv[j].v = JStr("news")
             THEN 1 ELSE 0) + CountNews(kids) + CountNews(Tail(items))

\* The list of tree nodes in an upstream answer, bare or in a data envelope
TreeOf(data) ==
    IF data.t = "dict"
    THEN data.kv[CHOOSE j \in 1..Len(data.kv) : data.kv[j].k = "data"].v.items
    ELSE data.items

C9_Stateless ==
    /\ [t \in 1..Len(tools) |-> tools[t].name] =
           <<"list_spaces", "get_news", "list_channels", "get_page", "search">>
    /\ tools = TOOLS
    /\ listing \in {<<>>, ListToolsResult(TOOLS)}
    /\ \A i \in Invocations : Done(i) =>
          LET f == frames[i] IN
          /\ f.outcome = AloneOutcome(f.name, f.arguments, environ, f.response)
          /\ (f.name = "list_channels" /\ f.response.k = "json") =>
                /\ Returned(i)
                /\ Payload(i).t = "list"
                /\ Len(Payload(i).items) = CountNews(TreeOf(f.response.data))

\* Two list_channels invocations, started before either was answered, both
\* finished with channels, and the catalog listed
C9_Witness ==
    /\ listing # <<>>
    /\ \A i \in {1, 2} :
          /\ Returned(i)
          /\ frames[i].name = "list_channels"
          /\ frames[i].response.k = "json"
          /\ Payload(i).t = "list"
          /\ Len(Payload(i).items) = 2

-----------------------------------------------------------------------------
(* Vocabulary of the get_news properties.                                  *)

\* The invocation is a get_news without a channel_id, or with an empty one
GlobalNews(i) ==
    /\ Started(i) /\ frames[i].name = "get_news"
    /\ HasField(frames[i].arguments, "channel_id") =>
          Field(frames[i].arguments, "channel_id").s = ""

\* The invocation is a get_news with a non-empty channel_id
ChannelNews(i) ==
    /\ Started(i) /\ frames[i].name = "get_news"
    /\ HasField(frames[i].arguments, "channel_id")
    /\ Field(frames[i].arguments, "channel_id").s # ""

\* The caller's limit, 10 when absent
CallerLimit(i) ==
    IF HasField(frames[i].arguments, "limit")
    THEN Field(frames[i].arguments, "limit").n
    ELSE 10

\* The invocation has issued exactly one request, to the global-posts
\* endpoint, with the caller's limit as its limit parameter
AskedGlobalPosts(i) ==
    /\ Len(frames[i].requests) = 1
    /\ frames[i].requests[1].url = "https://sb.example/api/posts"
    /\ Field(frames[i].requests[1].params, "limit") = JInt(CallerLimit(i))

\* The invocation returned a list after upstream answered 2xx
ReturnedList(i) ==
    /\ Returned(i) /\ frames[i].response.k = "json" /\ Payload(i).t = "list"

(* C4 as claimed: get_news without a channel_id asks the global-posts      *)
(* endpoint with the caller's limit (default 10), and for every integer    *)
(* limit the result list is at most limit long.                            *)
C4_GlobalNewsAnyLimit ==
    \A i \in Invocations : GlobalNews(i) =>
        /\ AskedGlobalPosts(i)
        /\ ReturnedList(i) => Len(Payload(i).items) <= CallerLimit(i)

(* C4 amended: get_news without a channel_id asks the global-posts         *)
(* endpoint with the caller's limit (default 10), and for every            *)
(* non-negative integer limit the result list is at most limit long.       *)
C4_GlobalNewsNonNegativeLimit ==
    \A i \in Invocations : GlobalNews(i) =>
        /\ AskedGlobalPosts(i)
        /\ (ReturnedList(i) /\ CallerLimit(i) >= 0) =>
              Len(Payload(i).items) <= CallerLimit(i)

\* No limit given, twelve posts upstream, ten returned
C4_Witness ==
    \E i \in Invocations :
        /\ GlobalNews(i) /\ ReturnedList(i)
        /\ ~HasField(frames[i].arguments, "limit")
        /\ frames[i].response.data.t = "list"
        /\ Len(frames[i].response.data.items) = 12
        /\ Len(Payload(i).items) = 10

-----------------------------------------------------------------------------
(* C5: get_news with a non-empty channel_id asks the per-channel posts     *)
(* endpoint, never the global one, and what it returns when upstream       *)
(* answers the envelope {data: L} is what it returns when upstream answers *)
(* the bare list L, for every list of posts L and every limit.             *)
C5_ChannelNewsEnvelope ==
    \A i \in Invocations : ChannelNews(i) =>
        LET f == frames[i] IN
        /\ Len(f.requests) = 1
        /\ f.requests[1].url =
              "https://sb.example/api/channels/"
                  \o Field(f.arguments, "channel_id").s \o "/posts"
        /\ f.requests[1].url # "https://sb.example/api/posts"
        /\ (Done(i) /\ f.response.k = "json" /\ f.response.data.t = "dict"
                /\ HasField(f.response.data, "data")) =>
              f.outcome = AloneOutcome(f.name, f.arguments, environ,
                              [k |-> "json", data |-> Field(f.response.data, "data")])

\* An envelope of five posts, answered to a channel call, gave posts
C5_Witness ==
    \E i \in Invocations :
        /\ ChannelNews(i) /\ ReturnedList(i)
        /\ frames[i].response.data.t = "dict"
        /\ HasField(frames[i].response.data, "data")
        /\ Len(Field(frames[i].response.data, "data").items) = 5
        /\ Len(Payload(i).items) >= 3

-----------------------------------------------------------------------------
(* C10: a teaser of n characters in a post's representative locale comes   *)
(* out of get_news as its first min(n, 200) characters, and a content of   *)
(* n characters in a page's representative locale comes out of get_page as *)
(* its first min(n, 5000) characters.                                      *)

\* out is the first min(Len(in), max) characters of in
IsPrefixUpTo(out, in, max) ==
    /\ Len(out) = (IF Len(in) < max THEN Len(in) ELSE max)
    /\ out = SubSeq(in, 1, Len(out))

\* The object of the first locale of item's contents has the field
FirstLocaleHas(item, field) ==
    /\ HasField(item, "contents")
    /\ Field(item, "contents").kv # <<>>
    /\ HasField(Field(item, "contents").kv[1].v, field)

FirstLocaleField(item, field) == Field(Field(item, "contents").kv[1].v, field).s

\* The upstream list of an answer, bare or in a data envelope
ListOf(data) == IF data.t = "dict" THEN Field(data, "data") ELSE data

C10_Truncation ==
    \A i \in Invocations : (Returned(i) /\ frames[i].response.k = "json") =>
        LET data == frames[i].response.data IN
        /\ frames[i].name = "get_news" =>
              \A j \in 1..Len(Payload(i).items) :
                  FirstLocaleHas(ListOf(data).items[j], "teaser") =>
                      IsPrefixUpTo(Field(Payload(i).items[j], "teaser").s,
                                   FirstLocaleField(ListOf(data).items[j], "teaser"), 200)
        /\ (frames[i].name = "get_page" /\ FirstLocaleHas(data, "content")) =>
              IsPrefixUpTo(Field(Payload(i), "content").s,
                           FirstLocaleField(data, "content"), 5000)

\* A teaser of 500 characters came out with 200, a content of 10000 with 5000
C10_Witness ==
    /\ Returned(1) /\ frames[1].response.k = "json"
    /\ Len(Payload(1).items) >= 1
    /\ Len(FirstLocaleField(ListOf(frames[1].response.data).items[1], "teaser")) = 500
    /\ Len(Field(Payload(1).items[1], "teaser").s) = 200
    /\ Returned(2) /\ frames[2].response.k = "json"
    /\ FirstLocaleHas(frames[2].response.data, "content")
    /\ Len(FirstLocaleField(frames[2].response.data, "content")) = 10000
    /\ Len(Field(Payload(2), "content").s) = 5000

-----------------------------------------------------------------------------
(* C6: for every channel tree, of any nesting depth, list_channels returns *)
(* one entry for each node typed "news" and none for any other node, in    *)
(* depth-first order: a node's entry before those of its descendants,      *)
(* siblings in upstream order.  A "news" node with children contributes    *)
(* itself once and its children are still walked.                          *)

\* The nodes of a list of tree nodes, each with its position in the tree
RECURSIVE NodesAt(_, _)
NodesAt(items, path) ==
    UNION {{[path |-> path \o <<j>>, id |-> Field(items[j], "id"),
             news |-> Field(items[j], "type") = JStr("news")]}
           \cup (IF HasField(items[j], "children")
                 THEN NodesAt(Field(items[j], "children").items, path \o <<j>>)
                 ELSE {}) : j \in 1..Len(items)}

\* Position p comes before position q depth-first: p is an ancestor of q,
\* or p branches off to the left of q
Before(p, q) ==
    \E k \in 1..Len(q) :
        /\ \A m \in 1..(k - 1) : m <= Len(p) /\ p[m] = q[m]
        /\ \/ Len(p) = k - 1
           \/ Len(p) >= k /\ p[k] < q[k]

C6_ChannelsDepthFirst ==
    \A i \in Invocations :
        (Done(i) /\ frames[i].name = "list_channels" /\ frames[i].response.k = "json") =>
            LET news == {n \in NodesAt(TreeOf(frames[i].response.data), <<>>) : n.news}
            IN /\ Returned(i)
               /\ Payload(i).t = "list"
               /\ Len(Payload(i).items) = Cardinality(news)
               /\ \A n \in news :
                     LET rank == 1 + Cardinality({m \in news : Before(m.path, n.path)})
                     IN /\ rank <= Len(Payload(i).items)
                        /\ Field(Payload(i).items[rank], "installation_id") = n.id

\* A tree three levels deep with a "news" node that has a "news" child, a
\* folder, and "news" nodes in two top-level subtrees
C6_Witness ==
    \E i \in Invocations :
        /\ Returned(i) /\ frames[i].name = "list_channels"
        /\ frames[i].response.k = "json"
        /\ LET nodes == NodesAt(TreeOf(frames[i].response.data), <<>>) IN
           /\ \E n \in nodes : n.news /\ Len(n.path) = 3
           /\ \E n, m \in nodes : n.news /\ m.news /\ Len(m.path) = Len(n.path) + 1
                                    /\ Before(n.path, m.path) /\ SubSeq(m.path, 1, Len(n.path)) = n.path
           /\ \E n \in nodes : ~n.news
           /\ \E n, m \in nodes : n.news /\ m.news /\ n.path[1] # m.path[1]
           /\ Len(Payload(i).items) = 3

====
